---- MODULE Spec2Model ----
(***************************************************************************)
(* A model of airflow.providers.google.cloud.sensors.pubsub                *)
(* (PubSubPullSensor) and of the Variable / XCom endpoint stubs of         *)
(* airflow.api_connexion.endpoints.                                        *)
(*                                                                         *)
(* Python's Optional values are modelled as sets of at most one element:   *)
(* None is {} and a given value v is {v}.                                  *)
(***************************************************************************)
EXTENDS Integers, Sequences, FiniteSets, TLC

VARIABLES
    args,         \* the arguments the sensor was constructed with
    self,         \* the fields of the PubSubPullSensor instance
    outstanding,  \* messages outstanding on the subscription
    trace,        \* the pokes of the current try, each with its hook/callback calls
    pc,           \* where the task is: scheduled, sleeping, up_for_reschedule, failed, success
    xcom,         \* the value execute returned
    try_number,   \* the try of the task that is running
    api           \* the last endpoint stub called and what it did

vars == <<args, self, outstanding, trace, pc, xcom, try_number, api>>

\* ---------------------------------------------------------------- bounds
MaxMsgs == 2     \* distinct messages that can be published
MaxPokes == 3    \* pokes in one try
MaxTries == 2    \* tries of the task

\* ------------------------------------------------------- Python values
None == {}
Some(v) == {v}
Val(o) == CHOOSE v \in o : TRUE
\* truth value of an Optional[str]: None and "" are falsy
Truthy(o) == o # None /\ Val(o) # ""

Min(a, b) == IF a < b THEN a ELSE b

\* ------------------------------------------------------------ messages
\* payload of message i: i bytes "a", "ab", "abc", ...
Data(i) == [k \in 1..i |-> 96 + k]

ReceivedMessage(i) ==
    [ack_id |-> i, message |-> [data |-> Data(i), message_id |-> 100 + i]]

Messages == {ReceivedMessage(i) : i \in 1..MaxMsgs}

\* base64 of up to three bytes, as alphabet indices; 64 stands for '='
B64Group(bs) ==
    LET b(k) == IF k <= Len(bs) THEN bs[k] ELSE 0
        n == b(1) * 65536 + b(2) * 256 + b(3)
        s1 == n \div 262144
        s2 == (n \div 4096) % 64
        s3 == (n \div 64) % 64
        s4 == n % 64
    IN  CASE Len(bs) = 1 -> <<s1, s2, 64, 64>>
          [] Len(bs) = 2 -> <<s1, s2, s3, 64>>
          [] OTHER -> <<s1, s2, s3, s4>>

RECURSIVE Base64(_)
Base64(bs) ==
    IF bs = <<>> THEN <<>>
    ELSE LET k == Min(3, Len(bs))
         IN  B64Group(SubSeq(bs, 1, k)) \o Base64(SubSeq(bs, k + 1, Len(bs)))

\* google.protobuf.json_format.MessageToDict on a ReceivedMessage:
\* lowerCamelCase keys, bytes as base64 text
MessageToDict(m) ==
    [ackId |-> m.ack_id,
     message |-> [data |-> Base64(m.message.data), messageId |-> m.message.message_id]]

\* ------------------------------------------------------------ callbacks
\* variant: builds the list back to front
RECURSIVE _default_message_callback_reversed(_)
_default_message_callback_reversed(pulled_messages) ==
    IF pulled_messages = <<>> THEN <<>>
    ELSE _default_message_callback_reversed(Tail(pulled_messages))
            \o <<MessageToDict(Head(pulled_messages))>>

\* list comprehension [MessageToDict(m) for m in pulled_messages]
RECURSIVE _default_message_callback(_)
_default_message_callback(pulled_messages) ==
    IF pulled_messages = <<>> THEN <<>>
    ELSE <<MessageToDict(Head(pulled_messages))>>
            \o _default_message_callback(Tail(pulled_messages))

\* a caller-supplied messages_callback: keeps only the message ids
RECURSIVE message_ids(_)
message_ids(pulled_messages) ==
    IF pulled_messages = <<>> THEN <<>>
    ELSE <<Head(pulled_messages).message.message_id>> \o message_ids(Tail(pulled_messages))

\* handle_messages = self.messages_callback or self._default_message_callback
handle_messages(s) ==
    IF s.messages_callback # None THEN Val(s.messages_callback) ELSE "_default_message_callback"

Call(fn, pulled_messages) ==
    IF fn = "_default_message_callback" THEN _default_message_callback(pulled_messages)
    ELSE message_ids(pulled_messages)

\* --------------------------------------------------------- construction
Default_max_messages == 5

ArgSets ==
    [project_id : {"project-id"},
     subscription : {"subscription"},
     max_messages : {None, Some(1)},
     return_immediately : {None, Some(TRUE), Some(FALSE)},
     ack_messages : BOOLEAN,
     project : {None, Some(""), Some("legacy-project")},
     messages_callback : {None, Some("message_ids")},
     mode : {"poke", "reschedule"}]

\* variant: "if project is not None" instead of "if project"
__init___project_not_none(a) ==
    [project_id |-> IF a.project # None THEN Val(a.project) ELSE a.project_id,
     subscription |-> a.subscription,
     max_messages |-> IF a.max_messages = None THEN Default_max_messages ELSE Val(a.max_messages),
     return_immediately |-> a.return_immediately,
     ack_messages |-> a.ack_messages,
     messages_callback |-> a.messages_callback,
     mode |-> a.mode,
     _return_value |-> None]

__init__(a) ==
    [project_id |-> IF Truthy(a.project) THEN Val(a.project) ELSE a.project_id,
     subscription |-> a.subscription,
     max_messages |-> IF a.max_messages = None THEN Default_max_messages ELSE Val(a.max_messages),
     return_immediately |-> a.return_immediately,
     ack_messages |-> a.ack_messages,
     messages_callback |-> a.messages_callback,
     mode |-> a.mode,
     _return_value |-> None]

\* BaseSensorOperator.reschedule
reschedule(s) == s.mode = "reschedule"

\* ----------------------------------------------------------------- hook
Range(seq) == {seq[i] : i \in 1..Len(seq)}

\* PubSubHook.pull: any list of distinct outstanding messages, at most
\* max_messages long (possibly empty)
PubSubHook_pull(out, max_messages) ==
    {p \in UNION {[1..k -> out] : k \in 0..Min(max_messages, Cardinality(out))} :
        \A i, j \in 1..Len(p) : i # j => p[i] # p[j]}

\* PubSubHook.acknowledge: the messages leave the outstanding set
PubSubHook_acknowledge(out, messages) == out \ Range(messages)

\* ----------------------------------------------------------------- poke
\* what one call of poke does: the instance afterwards, the calls it made
\* in order, and "True", "False" or "raised"
Return(s, calls, value) == [self |-> s, calls |-> calls, result |-> value]

\* variant: the exception is caught and poke reports "not ready"
Raise_swallowed(s, calls) == [self |-> s, calls |-> calls, result |-> "False"]

\* an exception leaves poke: there is no try/except in it
Raise(s, calls) == [self |-> s, calls |-> calls, result |-> "raised"]

bool(pulled_messages) == IF pulled_messages # <<>> THEN "True" ELSE "False"

\* variant: the constructor's value is ignored
return_immediately_from_mode(s) == reschedule(s)

\* return_immediately as passed to hook.pull
return_immediately(s) ==
    IF s.return_immediately = None THEN reschedule(s) ELSE Val(s.return_immediately)

PullCall(s, in) ==
    [op |-> "pull",
     project_id |-> s.project_id,
     subscription |-> s.subscription,
     max_messages |-> s.max_messages,
     return_immediately |-> return_immediately(s),
     raised |-> in.pull_raises,
     ret |-> in.pulled]

CallbackCall(s, in, pulled_messages) ==
    [op |-> "callback",
     fn |-> handle_messages(s),
     messages |-> pulled_messages,
     raised |-> in.callback_raises]

\* variant: only the first message is acknowledged
AcknowledgeCall_first_only(s, in, pulled_messages) ==
    [op |-> "acknowledge",
     project_id |-> s.project_id,
     subscription |-> s.subscription,
     messages |-> <<Head(pulled_messages)>>,
     raised |-> in.ack_raises]

AcknowledgeCall(s, in, pulled_messages) ==
    [op |-> "acknowledge",
     project_id |-> s.project_id,
     subscription |-> s.subscription,
     messages |-> pulled_messages,
     raised |-> in.ack_raises]

\* variant: "if self.ack_messages", without the test of pulled_messages
AcknowledgeStage_ack_on_empty(s, in, pulled_messages, calls) ==
    IF s.ack_messages
    THEN LET done == Append(calls, AcknowledgeCall(s, in, pulled_messages))
         IN  IF in.ack_raises THEN Raise(s, done)
             ELSE Return(s, done, bool(pulled_messages))
    ELSE Return(s, calls, bool(pulled_messages))

\* variant: "if pulled_messages", without the test of self.ack_messages
AcknowledgeStage_ignores_flag(s, in, pulled_messages, calls) ==
    IF pulled_messages # <<>>
    THEN LET done == Append(calls, AcknowledgeCall(s, in, pulled_messages))
         IN  IF in.ack_raises THEN Raise(s, done)
             ELSE Return(s, done, bool(pulled_messages))
    ELSE Return(s, calls, bool(pulled_messages))

\* if pulled_messages and self.ack_messages: hook.acknowledge(...)
\* return bool(pulled_messages)
AcknowledgeStage(s, in, pulled_messages, calls) ==
    IF pulled_messages # <<>> /\ s.ack_messages
    THEN LET done == Append(calls, AcknowledgeCall(s, in, pulled_messages))
         IN  IF in.ack_raises THEN Raise(s, done)
             ELSE Return(s, done, bool(pulled_messages))
    ELSE Return(s, calls, bool(pulled_messages))

\* variant: the callback runs only when something was pulled
CallbackStage_skips_empty(s, in, pulled_messages, calls) ==
    IF pulled_messages = <<>> THEN AcknowledgeStage(s, in, pulled_messages, calls)
    ELSE LET done == Append(calls, CallbackCall(s, in, pulled_messages))
         IN  IF in.callback_raises THEN Raise(s, done)
             ELSE AcknowledgeStage(
                      [s EXCEPT !._return_value = Some(Call(handle_messages(s), pulled_messages))],
                      in, pulled_messages, done)

\* self._return_value = handle_messages(pulled_messages, context)
CallbackStage(s, in, pulled_messages, calls) ==
    LET done == Append(calls, CallbackCall(s, in, pulled_messages))
    IN  IF in.callback_raises THEN Raise(s, done)
        ELSE AcknowledgeStage(
                 [s EXCEPT !._return_value = Some(Call(handle_messages(s), pulled_messages))],
                 in, pulled_messages, done)

poke(s, in) ==
    IF in.pull_raises THEN Raise(s, <<PullCall(s, in)>>)
    ELSE CallbackStage(s, in, in.pulled, <<PullCall(s, in)>>)

\* what the environment decides during one poke: whether pull fails and
\* what it returns, whether the caller's callback fails, whether
\* acknowledge fails and, if it does, whether the service applied it
PokeInputs(s, out) ==
    {[pull_raises |-> TRUE, pulled |-> <<>>, callback_raises |-> FALSE,
      ack_raises |-> FALSE, ack_applied |-> FALSE]}
    \cup
    {[pull_raises |-> FALSE, pulled |-> p, callback_raises |-> cr,
      ack_raises |-> ar, ack_applied |-> aa] :
        p \in PubSubHook_pull(out, s.max_messages),
        cr \in IF s.messages_callback = None THEN {FALSE} ELSE BOOLEAN,
        ar \in BOOLEAN,
        aa \in BOOLEAN}

\* the subscription after the calls of one poke
HookEffect(out, calls, in) ==
    LET c == calls[Len(calls)]
    IN  IF c.op = "acknowledge" /\ (~c.raised \/ in.ack_applied)
        THEN PubSubHook_acknowledge(out, c.messages)
        ELSE out

\* -------------------------------------------------------------- execute
\* BaseSensorOperator.execute after one poke: an exception of poke leaves
\* execute; True ends the wait; False times out, reschedules or sleeps
SensorLoop(s, result, timed_out) ==
    CASE result = "raised" -> "failed"
      [] result = "True" -> "success"
      [] OTHER -> IF timed_out THEN "failed"
                  ELSE IF reschedule(s) THEN "up_for_reschedule"
                  ELSE "sleeping"

\* variant: execute returns what BaseSensorOperator.execute returns
execute_return_none(s) == None

\* PubSubPullSensor.execute: return self._return_value
execute_return(s) == s._return_value

\* ------------------------------------------------------- endpoint stubs
\* raise NotImplementedError("Not implemented yet."): nothing is returned
NotImplementedError == [raised |-> Some("NotImplementedError"), returned |-> None]

delete_variable == NotImplementedError
\* variant: the stub answers
get_variable_returns == [raised |-> None, returned |-> Some("value")]
get_variable == NotImplementedError
get_variables == NotImplementedError
lookup_variable == NotImplementedError
patch_variable == NotImplementedError
post_variables == NotImplementedError
delete_xcom_entry == NotImplementedError
get_xcom_entry == NotImplementedError
get_xcom_entries == NotImplementedError
patch_xcom_entry == NotImplementedError
post_xcom_entries == NotImplementedError

Endpoints ==
    {"delete_variable", "get_variable", "get_variables", "lookup_variable",
     "patch_variable", "post_variables", "delete_xcom_entry", "get_xcom_entry",
     "get_xcom_entries", "patch_xcom_entry", "post_xcom_entries"}

Endpoint(name) ==
    CASE name = "delete_variable" -> delete_variable
      [] name = "get_variable" -> get_variable
      [] name = "get_variables" -> get_variables
      [] name = "lookup_variable" -> lookup_variable
      [] name = "patch_variable" -> patch_variable
      [] name = "post_variables" -> post_variables
      [] name = "delete_xcom_entry" -> delete_xcom_entry
      [] name = "get_xcom_entry" -> get_xcom_entry
      [] name = "get_xcom_entries" -> get_xcom_entries
      [] name = "patch_xcom_entry" -> patch_xcom_entry
      [] name = "post_xcom_entries" -> post_xcom_entries

\* ---------------------------------------------------------------- state
Init ==
    /\ args \in ArgSets
    /\ self = __init__(args)
    /\ outstanding = {}
    /\ trace = <<>>
    /\ pc = "scheduled"
    /\ xcom = None
    /\ try_number = 1
    /\ api = [endpoint |-> "", raised |-> None, returned |-> None]

Publish ==
    /\ \E m \in Messages \ outstanding : outstanding' = outstanding \cup {m}
    /\ UNCHANGED <<args, self, trace, pc, xcom, try_number, api>>

\* one iteration of the wait of execute: a whole poke, then the loop's decision
ExecutePoke ==
    /\ pc \in {"scheduled", "sleeping"}
    /\ Len(trace) < MaxPokes
    /\ \E in \in PokeInputs(self, outstanding), timed_out \in BOOLEAN :
          LET out == poke(self, in)
              after == SensorLoop(out.self, out.result, timed_out)
          IN  /\ self' = out.self
              /\ trace' = Append(trace, [calls |-> out.calls, result |-> out.result])
              /\ outstanding' = HookEffect(outstanding, out.calls, in)
              /\ pc' = after
              /\ xcom' = IF after = "success" THEN execute_return(out.self) ELSE xcom
    /\ UNCHANGED <<args, try_number, api>>

\* the platform runs a rescheduled task again, on a fresh instance
Reschedule ==
    /\ pc = "up_for_reschedule"
    /\ pc' = "scheduled"
    /\ self' = __init__(args)
    /\ UNCHANGED <<args, outstanding, trace, xcom, try_number, api>>

\* the platform retries a failed task: a new try on a fresh instance
Retry ==
    /\ pc = "failed"
    /\ try_number < MaxTries
    /\ try_number' = try_number + 1
    /\ pc' = "scheduled"
    /\ self' = __init__(args)
    /\ trace' = <<>>
    /\ UNCHANGED <<args, outstanding, xcom, api>>

\* a request reaches one of the endpoint stubs
CallEndpoint ==
    /\ \E name \in Endpoints :
          LET r == Endpoint(name)
          IN  api' = [endpoint |-> name, raised |-> r.raised, returned |-> r.returned]
    /\ UNCHANGED <<args, self, outstanding, trace, pc, xcom, try_number>>

Next ==
    \/ Publish
    \/ ExecutePoke
    \/ Reschedule
    \/ Retry

Spec == Init /\ [][Next]_vars

\* the endpoint stubs, called in any order
NextEndpoints == CallEndpoint

SpecEndpoints == Init /\ [][NextEndpoints]_vars

\* =============================================================== properties
\* the calls of a poke
PullOf(p) == p.calls[1]
CallsOf(p, op) == {j \in 1..Len(p.calls) : p.calls[j].op = op}
PullReturned(p) == ~PullOf(p).raised
Pulled(p) == PullOf(p).ret
CallbackRaised(p) == \E j \in CallsOf(p, "callback") : p.calls[j].raised
AcknowledgeRaised(p) == \E j \in CallsOf(p, "acknowledge") : p.calls[j].raised
LastPoke == trace[Len(trace)]
\* this step is a poke
PokeStep == Len(trace') = Len(trace) + 1

\* C1, as stated: a poke whose pull returns no message returns False and
\* does not call acknowledge.
C1_EmptyPullReturnsFalse ==
    \A i \in 1..Len(trace) :
        LET p == trace[i]
        IN  (PullReturned(p) /\ Pulled(p) = <<>>) =>
                /\ p.result = "False"
                /\ CallsOf(p, "acknowledge") = {}

\* C1, amended: a poke whose pull returns no message never calls
\* acknowledge, whatever ack_messages is, and returns False unless the
\* message callback raises, in which case the exception leaves poke.
C1_EmptyPullNotReady ==
    \A i \in 1..Len(trace) :
        LET p == trace[i]
        IN  (PullReturned(p) /\ Pulled(p) = <<>>) =>
                /\ CallsOf(p, "acknowledge") = {}
                /\ p.result = IF CallbackRaised(p) THEN "raised" ELSE "False"

C1_Witness ==
    /\ Len(trace) >= 2
    /\ args.ack_messages
    /\ outstanding # {}
    /\ PullReturned(trace[1]) /\ Pulled(trace[1]) = <<>> /\ trace[1].result = "False"
    /\ PullReturned(trace[2]) /\ Pulled(trace[2]) = <<>> /\ trace[2].result = "False"

\* every acknowledge call of the poke repeats the project id and the
\* subscription of the pull and carries the list the pull returned
AckMatchesPull(p) ==
    \A j \in CallsOf(p, "acknowledge") :
        /\ p.calls[j].project_id = PullOf(p).project_id
        /\ p.calls[j].subscription = PullOf(p).subscription
        /\ p.calls[j].messages = Pulled(p)

C3_DefaultResult ==
    (/\ trace # <<>>
     /\ pc # "scheduled"
     /\ args.messages_callback = None
     /\ PullReturned(LastPoke)) =>
        /\ self._return_value # None
        /\ Len(Val(self._return_value)) = Len(Pulled(LastPoke))
        /\ \A k \in 1..Len(Pulled(LastPoke)) :
               Val(self._return_value)[k] = MessageToDict(Pulled(LastPoke)[k])

C3_Witness ==
    /\ trace # <<>>
    /\ pc # "scheduled"
    /\ args.messages_callback = None
    /\ PullReturned(LastPoke)
    /\ Len(Pulled(LastPoke)) = 2
    /\ Len(Val(self._return_value)) = 2

\* the value C4 states for the argument of pull
C4_Expected ==
    IF args.return_immediately # None THEN Val(args.return_immediately)
    ELSE args.mode = "reschedule"

\* C4: every pull is given the constructor's return_immediately when it
\* is True or False and, when it is None, True in reschedule mode and
\* False in poke mode; the stored return_immediately never changes.
C4_ReturnImmediately ==
    /\ [](\A i \in 1..Len(trace) : PullOf(trace[i]).return_immediately = C4_Expected)
    /\ [][self'.return_immediately = self.return_immediately]_vars

C4_Witness ==
    /\ trace # <<>>
    /\ args.return_immediately = None
    /\ args.mode = "reschedule"
    /\ PullOf(LastPoke).return_immediately = TRUE
    /\ self.return_immediately = None

\* C5: when execute returns and ack_messages is set, every message of the
\* pull that ended the wait has been passed to acknowledge; when
\* ack_messages is not set, the sensor never calls acknowledge.
C5_AcknowledgedBeforeReturn ==
    /\ (pc = "success" /\ args.ack_messages) =>
           \E j \in CallsOf(LastPoke, "acknowledge") :
               /\ ~LastPoke.calls[j].raised
               /\ Pulled(LastPoke) # <<>>
               /\ Range(Pulled(LastPoke)) \subseteq Range(LastPoke.calls[j].messages)
    /\ ~args.ack_messages =>
           \A i \in 1..Len(trace) : CallsOf(trace[i], "acknowledge") = {}

C5_Witness ==
    /\ pc = "success"
    /\ args.ack_messages
    /\ Len(Pulled(LastPoke)) = 2
    /\ xcom # None

\* C6: the value execute returns is the callback (or the default
\* transformation) applied to the messages of the poke that ended the
\* wait, which is the first poke whose pull was not empty.
C6_ReturnedValue ==
    pc = "success" =>
        /\ PullReturned(LastPoke)
        /\ Pulled(LastPoke) # <<>>
        /\ \A i \in 1..(Len(trace) - 1) : PullReturned(trace[i]) /\ Pulled(trace[i]) = <<>>
        /\ xcom = Some(Call(handle_messages(self), Pulled(LastPoke)))
        /\ xcom # Some(<<>>)

C6_Witness ==
    /\ pc = "success"
    /\ Len(trace) >= 2
    /\ args.messages_callback # None
    /\ xcom = Some(message_ids(Pulled(LastPoke)))
    /\ Len(Pulled(LastPoke)) = 2

\* C7: a poke pulls once; if the pull fails nothing else is called, the
\* stored result is unchanged and the failure leaves poke; if
\* acknowledge fails the failure leaves poke, which does not report
\* success, and acknowledge was called once.
C7_FailurePropagates ==
    /\ [](\A i \in 1..Len(trace) :
            LET p == trace[i]
            IN  /\ CallsOf(p, "pull") = {1}
                /\ PullOf(p).raised => (Len(p.calls) = 1 /\ p.result = "raised")
                /\ AcknowledgeRaised(p) =>
                       /\ p.result = "raised"
                       /\ CallsOf(p, "acknowledge") = {Len(p.calls)})
    /\ [][(PokeStep /\ PullOf(trace'[Len(trace')]).raised) =>
              (self' = self /\ outstanding' = outstanding)]_vars

C7_Witness ==
    /\ Len(trace) >= 2
    /\ PullOf(LastPoke).raised
    /\ LastPoke.result = "raised"
    /\ self._return_value = Some(<<>>)

\* C8: every endpoint stub raises NotImplementedError, returns nothing
\* and changes no state.
C8_NotImplemented ==
    /\ [](api.endpoint # "" =>
            /\ api.endpoint \in Endpoints
            /\ api.raised = Some("NotImplementedError")
            /\ api.returned = None)
    /\ [][api' # api => UNCHANGED <<args, self, outstanding, trace, pc, xcom, try_number>>]_vars

C8_Witness ==
    /\ api.endpoint = "get_variable"
    /\ api.raised = Some("NotImplementedError")
    /\ api.returned = None

\* C9, as stated: every poke calls pull, then the callback exactly once,
\* then possibly acknowledge; a failed callback means no acknowledge.
C9_CallbackOnEveryPoke ==
    \A i \in 1..Len(trace) :
        LET p == trace[i]
        IN  /\ CallsOf(p, "pull") = {1}
            /\ CallsOf(p, "callback") = {2}
            /\ CallsOf(p, "acknowledge") \subseteq {3}
            /\ CallbackRaised(p) => CallsOf(p, "acknowledge") = {}

\* C9, amended: every poke calls pull first; if the pull does not fail the
\* callback is called exactly once (also when nothing was pulled), before
\* any acknowledge, and if the pull fails it is not called; if the
\* callback fails, acknowledge is not called even when ack_messages is
\* set, and the subscription's outstanding messages are unchanged.
C9_PokeOrder ==
    /\ [](\A i \in 1..Len(trace) :
            LET p == trace[i]
            IN  /\ CallsOf(p, "pull") = {1}
                /\ CallsOf(p, "callback") = IF PullReturned(p) THEN {2} ELSE {}
                /\ CallsOf(p, "acknowledge") \subseteq {3}
                /\ CallbackRaised(p) =>
                       (CallsOf(p, "acknowledge") = {} /\ p.result = "raised"))
    /\ [][(PokeStep /\ CallbackRaised(trace'[Len(trace')])) =>
              outstanding' = outstanding]_vars

C9_Witness ==
    /\ trace # <<>>
    /\ args.ack_messages
    /\ CallbackRaised(LastPoke)
    /\ Len(Pulled(LastPoke)) = 2
    /\ Range(Pulled(LastPoke)) \subseteq outstanding

\* the project id and max_messages C10 states
C10_ProjectId ==
    IF args.project # None /\ Val(args.project) # "" THEN Val(args.project)
    ELSE args.project_id

C10_MaxMessages == IF args.max_messages = None THEN 5 ELSE Val(args.max_messages)

\* C10: every pull and every acknowledge uses the deprecated project
\* argument when it is given and not empty and project_id otherwise, and
\* the constructor's subscription; every pull asks for the constructor's
\* max_messages (5 by default); none of the three ever changes.
C10_CallArguments ==
    /\ [](\A i \in 1..Len(trace) : \A j \in 1..Len(trace[i].calls) :
            LET c == trace[i].calls[j]
            IN  /\ c.op \in {"pull", "acknowledge"} =>
                       (c.project_id = C10_ProjectId /\ c.subscription = args.subscription)
                /\ c.op = "pull" => c.max_messages = C10_MaxMessages)
    /\ [][/\ self'.project_id = self.project_id
          /\ self'.subscription = self.subscription
          /\ self'.max_messages = self.max_messages]_vars

C10_Witness ==
    /\ trace # <<>>
    /\ args.project = Some("legacy-project")
    /\ args.max_messages = None
    /\ CallsOf(LastPoke, "acknowledge") = {3}
    /\ LastPoke.calls[3].project_id = "legacy-project"
    /\ PullOf(LastPoke).max_messages = 5
====
